---- MODULE Spec2Model ----
(***************************************************************************)
(* easy-rpc (src/src/lib.rs): two Sessions joined by one duplex Adaptor.   *)
(* "cli" is the session whose host threads call request / notify (and,     *)
(* optionally, loop_handle); "srv" is the peer, whose host runs            *)
(* loop_handle on one thread and invokes stored AsyncRets on another.      *)
(* Both sessions run the same Session code; frames are sequences of        *)
(* MessagePack items.                                                      *)
(***************************************************************************)
EXTENDS Integers, Sequences, FiniteSets, Bags, TLC

(* ------------------------------ bounds -------------------------------- *)

\* the calls (request or notify) a caller thread makes, see CallsFor
MaxCalls == 1
\* width of the id counter in the model (lib.rs: AtomicU32, 32 bits)
IdBits == 2

(* --------------------------- program constants ------------------------ *)

REQUEST == 0
RESPONSE == 1
NOTIFY == 2

IdModulus == 2 ^ IdBits

(* ------------------------------ universe ------------------------------ *)

Sess == {"cli", "srv"}
Peer(s) == IF s = "cli" THEN "srv" ELSE "cli"

Callers == {"c1", "c2"}
Loopers == {"cL", "sL"}
Workers == {"sW"}
Threads == Callers \cup Loopers \cup Workers

\* the frame of a request that a handler makes on the thread that invoked it:
\* c1n is the request made inside handle_packet on thread c1
Frames == {"c1n"}
FrameOf(t) == "c1n"
Owner(n) == "c1"

\* a host thread of the server session that calls on it
PeerCallers == {"sN"}

\* everything that runs request or notify
Requesters == Callers \cup Frames \cup PeerCallers

AllThreads == Threads \cup Frames \cup PeerCallers

SessOf(t) == IF t \in {"sL", "sW", "sN"} THEN "srv" ELSE "cli"

\* the thread sets a host can run on the client session
HostChoices == { {"c1"}, {"c1", "c2"}, {"c1", "cL"}, {"c1", "c2", "cL"} }

\* payloads the callers send
Vals == {1, 2}

(* ------------------------- MessagePack items -------------------------- *)

Item(k, n, s) == [k |-> k, n |-> n, s |-> s]
Arr(n) == Item("arr", n, "")
UInt(n) == Item("uint", n, "")
Str(s) == Item("str", 0, s)
Nil == Item("nil", 0, "")

\* rmps Serializer on a u32 value
Encode(v) == << UInt(v) >>

\* rmps::from_read_ref::<u32>
Decode(bytes) ==
    IF Len(bytes) >= 1 /\ bytes[1].k = "uint"
    THEN [ok |-> TRUE, v |-> bytes[1].n]
    ELSE [ok |-> FALSE, v |-> 0]

(* ------------------------------ Method -------------------------------- *)

MInt(n) == [k |-> "Int", n |-> n, s |-> ""]
MStr(s) == [k |-> "Str", n |-> 0, s |-> s]

\* Method::serialize
MethodSerialize(m) == IF m.k = "Int" THEN UInt(m.n) ELSE Str(m.s)

\* Session::parse_method: Some(<<m>>) or None (<<>>)
parse_method(val) ==
    IF val.k = "uint" THEN << MInt(val.n) >>
    ELSE IF val.k = "str" THEN << MStr(val.s) >>
    ELSE << >>

(* ------------------------------ packets ------------------------------- *)

\* Session::prepare_request, after next_id has produced req_id
prepare_request(req_id, m) ==
    << Arr(4), UInt(REQUEST), UInt(req_id), MethodSerialize(m) >>

\* Session::prepare_notify
prepare_notify(m) == << Arr(3), UInt(NOTIFY), MethodSerialize(m) >>

\* Session::prepare_response
prepare_response(req_id) == << Arr(4), UInt(RESPONSE), UInt(req_id) >>

\* Session::response: nil error field, then the serialized value
response(req_id, v) == prepare_response(req_id) \o << Nil >> \o Encode(v)

\* Ret::ret_raw / AsyncRet::ret_raw: nil error field, then the bytes as given
ret_raw(req_id, msgpack) == prepare_response(req_id) \o << Nil >> \o msgpack

\* response_error with its two fields written in the order of response
response_error_swapped(req_id, err) ==
    prepare_response(req_id) \o << Nil, Str(err) >>

\* Session::response_error: string error field, then nil
response_error(req_id, err) == prepare_response(req_id) \o << Str(err), Nil >>

\* next_id with a counter that is read and never advanced
next_id_stuck(c) == c

\* Session::next_id: the value fetch_add leaves in id_counter
next_id(c) == (c + 1) % IdModulus

(* ------------------------------ Response ------------------------------ *)

Data(pack, off) == [k |-> "Data", pack |-> pack, off |-> off, err |-> ""]
Error(s) == [k |-> "Error", pack |-> << >>, off |-> 0, err |-> s]

\* RespData::as_slice
as_slice(r) == SubSeq(r.pack, r.off + 1, Len(r.pack))

\* an offset taken before the error field is read
RespOffset_early == 4 - 1

\* the items handle_packet has read when it builds RespData (the offset of
\* reader from start_ptr): array length, type, id, error
RespOffset == 4

\* handle_packet, RESPONSE arm: the Response built from the packet
ResponseOf(pack) ==
    IF pack[4].k = "nil" THEN Data(pack, RespOffset) ELSE Error(pack[4].s)

(* ------------------------------ Service ------------------------------- *)

\* impl From<T: Debug> for HandleError: format!("{:#?}", e) of a &str
HandleErrorFrom(s) == "\"" \o s \o "\""

\* what a handler did: how it used its Ret, and what it returned
Outcome(use, val, raw, msg, ok, err) ==
    [use |-> use, val |-> val, raw |-> raw, msg |-> msg, ok |-> ok, err |-> err]

\* Service::handle default body, which EmptyService keeps
EmptyService == Outcome("none", 0, << >>, "", FALSE, "No this method")

\* a Service in the shape of the crate example, one arm per use of Ret
ServerService(method, bytes) ==
    LET d == Decode(bytes)
        \* arg.into()? on bytes that do not decode
        undecoded == Outcome("none", 0, << >>, "", FALSE, HandleErrorFrom("decode"))
    IN
    IF method = MStr("add") THEN
        IF d.ok THEN Outcome("call", d.v, << >>, "", TRUE, "") ELSE undecoded
    ELSE IF method = MInt(7) THEN Outcome("raw", 0, bytes, "", TRUE, "")
    ELSE IF method = MStr("slow") THEN Outcome("async", 0, << >>, "", TRUE, "")
    ELSE IF method = MStr("fail") THEN Outcome("error", 0, << >>, "bad", TRUE, "")
    ELSE IF method = MStr("twice") THEN
        IF d.ok THEN Outcome("call", d.v, << >>, "", FALSE, HandleErrorFrom("late"))
        ELSE undecoded
    ELSE IF method = MStr("mute") THEN Outcome("none", 0, << >>, "", TRUE, "")
    ELSE Outcome("none", 0, << >>, "", FALSE, HandleErrorFrom("No this method"))

\* session.service.handle
Handle(s, method, bytes) ==
    IF s = "srv" THEN ServerService(method, bytes) ELSE EmptyService

\* the methods a caller uses when it is the only caller of its session
Methods == { MStr("add"), MInt(7), MStr("slow"), MStr("fail"), MStr("twice"),
             MStr("mute"), MStr("nope") }

\* the methods the callers use when two of them share the session
SharedMethods == { MStr("add"), MStr("twice") }

\* a run with one caller thread on the client session
Solo(run) == Cardinality(run \cap Callers) = 1

MethodsFor(run) == IF Solo(run) THEN Methods ELSE SharedMethods

\* the calls each caller makes in a run: MaxCalls, and one where two callers
\* and loop_handle all share the session or where the peer calls back
CallsFor(run) ==
    IF Cardinality(run) = 3 \/ run \cap PeerCallers # { } THEN 1 ELSE MaxCalls

\* the arguments a caller sends: any value when it is the only caller, a value
\* of its own when two callers share the session
ValsFor(run, t) == IF Solo(run) THEN Vals ELSE IF t = "c1" THEN { 1 } ELSE { 2 }

(* -------------------------------- Ret --------------------------------- *)

\* Option<u32>: None is << >>, Some(id) is << id >>

\* the req_wrapper handle_packet gives the Ret of a Request
RequestWrapper(req_id) == << req_id >>

\* a Notify whose Ret is armed with the id Arg carries for notifications
NotifyWrapper_armed == << 0 >>

\* the req_wrapper handle_packet gives the Ret of a Notify
NotifyWrapper == << >>

\* Ret::call_once / Ret::error / Ret::ret_raw: the frames the Ret sends
RetFrames(w, h) ==
    IF w = << >> THEN << >>
    ELSE IF h.use = "call" THEN << response(w[1], h.val) >>
    ELSE IF h.use = "raw" THEN << ret_raw(w[1], h.raw) >>
    ELSE IF h.use = "error" THEN << response_error(w[1], h.msg) >>
    ELSE << >>

\* Ret::into_async: the AsyncRets made (req_id.map copies the id out)
into_async(w, h) ==
    IF h.use = "async" /\ w # << >> THEN { [req_id |-> w[1]] } ELSE { }

\* a session that answers "missing response" with an error of its own
AfterHandle_strict(req_id, h) ==
    IF ~h.ok THEN << response_error(req_id, h.err) >>
    ELSE IF h.use \in { "none", "async" }
    THEN << response_error(req_id, "missing response") >>
    ELSE << >>

\* handle_packet, REQUEST arm: what the session sends once handle returned
AfterHandle(req_id, h) ==
    IF ~h.ok THEN << response_error(req_id, h.err) >> ELSE << >>

(* ------------------------------- state -------------------------------- *)

VARIABLES
    running,       \* the client threads the host runs
    id_counter,    \* Session.id_counter, per session
    sender_table,  \* Session.sender_table: id -> Sender (the channel it feeds)
    recv_mutex,    \* Session.recv_mutex: the threads holding it (none or one)
    wire,          \* the Adaptor: frames sent to a session and not yet received
    pc,            \* where each thread is
    req_id,        \* request / wait_response: the local req_id
    pack,          \* the local pack: the frame being built or handled
    chan,          \* the mpsc channel of a thread's wait_response
    calls,         \* calls a caller thread has started
    call,          \* the method and argument of the call in progress
    results,       \* what the request calls of a thread returned, in order
    async_rets,    \* AsyncRets a service holds for a later reply
    sent,          \* history: the bag of frames each session handed to send
    served,        \* history: the handler invocations
    invoked,       \* history: the AsyncRet invocations
    delivered,     \* history: Responses put in the channel of the current call
    connected      \* Adaptor::connected: the transport has not been closed

vars == << running, connected, id_counter, sender_table, recv_mutex, wire,
           pc, req_id, pack, chan, calls, call, results, async_rets, sent,
           served, invoked, delivered >>

NoCall == [m |-> MInt(0), v |-> 0]

\* two sessions whose id counters stand at c, with nothing pending or in
\* flight, and the host's threads before their next call
Start(c) ==
    /\ connected = TRUE
    /\ id_counter = [s \in Sess |-> c]
    /\ sender_table = [s \in Sess |-> << >>]
    /\ recv_mutex = [s \in Sess |-> { }]
    /\ wire = [s \in Sess |-> << >>]
    /\ pc = [t \in AllThreads |->
                IF t \in Callers \cup PeerCallers
                THEN (IF t \in running THEN "idle" ELSE "off")
                ELSE IF t \in Frames THEN "off"
                ELSE IF t = "cL" THEN (IF t \in running THEN "loop" ELSE "off")
                ELSE IF t = "sL" THEN "loop"
                ELSE "idle"]
    /\ req_id = [t \in AllThreads |-> 0]
    /\ pack = [t \in AllThreads |-> << >>]
    /\ chan = [t \in AllThreads |-> << >>]
    /\ calls = [t \in AllThreads |-> 0]
    /\ call = [t \in AllThreads |-> NoCall]
    /\ results = [t \in AllThreads |-> << >>]
    /\ async_rets = [s \in Sess |-> { }]
    /\ sent = [s \in Sess |-> EmptyBag]
    /\ served = { }
    /\ invoked = { }
    /\ delivered = [t \in AllThreads |-> 0]

\* Session::new: the id counter starts at 1
Init == running \in HostChoices /\ Start(1)

(* ------------------------------ Adaptor ------------------------------- *)

\* what the transport carries of the frames fs handed to it: all of them
\* while it is open, none once it is closed (send returns false)
Transmit(w, fs) == IF connected THEN w \o fs ELSE w

\* Adaptor::recv reports Disconnected once the transport is closed
Disconnected == ~connected

\* Adaptor::close, by the host of either session
close ==
    /\ connected
    /\ connected' = FALSE
    /\ UNCHANGED << running, id_counter, sender_table, recv_mutex, wire, pc,
                    req_id, pack, chan, calls, call, results, async_rets,
                    sent, served, invoked, delivered >>

\* Adaptor::send of the frames fs, in order, by session s
Send(s, fs) ==
    /\ wire' = [wire EXCEPT ![Peer(s)] = Transmit(@, fs)]
    /\ sent' = [sent EXCEPT ![s] =
                    @ (+) [f \in { fs[i] : i \in 1..Len(fs) } |->
                              Cardinality({ i \in 1..Len(fs) : fs[i] = f })]]

(* ------------------------- request and notify ------------------------- *)

\* Session::request up to the end of prepare_request: next_id, header, method,
\* and the argument serialized after them
request(t, m, v) ==
    /\ t \in Requesters /\ pc[t] = "idle" /\ calls[t] < CallsFor(running)
    /\ req_id' = [req_id EXCEPT ![t] = id_counter[SessOf(t)]]
    /\ id_counter' = [id_counter EXCEPT ![SessOf(t)] = next_id(@)]
    /\ pack' = [pack EXCEPT ![t] =
                    prepare_request(id_counter[SessOf(t)], m) \o Encode(v)]
    /\ call' = [call EXCEPT ![t] = [m |-> m, v |-> v]]
    /\ calls' = [calls EXCEPT ![t] = @ + 1]
    /\ pc' = [pc EXCEPT ![t] = "send"]
    /\ UNCHANGED << running, connected, sender_table, recv_mutex, wire, chan,
                    results, async_rets, sent, served, invoked, delivered >>

\* Session::request: self.send_pack(pack)
request_send(t) ==
    /\ pc[t] = "send"
    /\ Send(SessOf(t), << pack[t] >>)
    /\ pack' = [pack EXCEPT ![t] = << >>]
    /\ pc' = [pc EXCEPT ![t] = "insert"]
    /\ UNCHANGED << running, connected, id_counter, sender_table, recv_mutex,
                    req_id, chan, calls, call, results, async_rets, served,
                    invoked, delivered >>

\* Session::wait_response: channel(), then sender_table.insert(req_id, sender)
wait_response(t) ==
    /\ pc[t] = "insert"
    /\ chan' = [chan EXCEPT ![t] = << >>]
    /\ delivered' = [delivered EXCEPT ![t] = 0]
    /\ sender_table' = [sender_table EXCEPT ![SessOf(t)] =
                            (req_id[t] :> << t, calls[t] >>) @@ @]
    /\ pc' = [pc EXCEPT ![t] = "loop"]
    /\ UNCHANGED << running, connected, id_counter, recv_mutex, wire, req_id,
                    pack, calls, call, results, async_rets, sent, served,
                    invoked >>

\* Session::notify: prepare_notify, serialize, send_pack
notify(t, m, v) ==
    /\ t \in Requesters /\ pc[t] = "idle" /\ calls[t] < CallsFor(running)
    /\ Solo(running)
    /\ Send(SessOf(t), << prepare_notify(m) \o Encode(v) >>)
    /\ calls' = [calls EXCEPT ![t] = @ + 1]
    /\ UNCHANGED << running, connected, id_counter, sender_table, recv_mutex,
                    pc, req_id, pack, chan, call, results, async_rets, served,
                    invoked, delivered >>

(* ------------------ request_transfer and notify_transfer --------------- *)

\* the bytes spliced as one bin object, behind its header
extend_from_slice_bin(p, msgpack) ==
    p \o << Item("bin", Len(msgpack), "") >> \o msgpack

\* Vec::extend_from_slice: the bytes appended as they are
extend_from_slice(p, msgpack) == p \o msgpack

\* Session::request_transfer up to the end of extend_from_slice: next_id,
\* header, method, and the bytes given after them; send_pack and
\* wait_response follow as in request
request_transfer(t, m, msgpack) ==
    /\ t \in Requesters /\ pc[t] = "idle" /\ calls[t] < CallsFor(running)
    /\ req_id' = [req_id EXCEPT ![t] = id_counter[SessOf(t)]]
    /\ id_counter' = [id_counter EXCEPT ![SessOf(t)] = next_id(@)]
    /\ pack' = [pack EXCEPT ![t] =
                    extend_from_slice(
                        prepare_request(id_counter[SessOf(t)], m), msgpack)]
    /\ call' = [call EXCEPT ![t] = [m |-> m, v |-> Decode(msgpack).v]]
    /\ calls' = [calls EXCEPT ![t] = @ + 1]
    /\ pc' = [pc EXCEPT ![t] = "send"]
    /\ UNCHANGED << running, connected, sender_table, recv_mutex, wire, chan,
                    results, async_rets, sent, served, invoked, delivered >>

\* Session::notify_transfer: prepare_notify, extend_from_slice, send_pack
notify_transfer(t, m, msgpack) ==
    /\ t \in Requesters /\ pc[t] = "idle" /\ calls[t] < CallsFor(running)
    /\ Solo(running)
    /\ Send(SessOf(t), << extend_from_slice(prepare_notify(m), msgpack) >>)
    /\ calls' = [calls EXCEPT ![t] = @ + 1]
    /\ UNCHANGED << running, connected, id_counter, sender_table, recv_mutex,
                    pc, req_id, pack, chan, call, results, async_rets, served,
                    invoked, delivered >>

(* ------------------------- receiving packets -------------------------- *)

\* a guard that outlives recv_packet: the lock stays with the thread
drop_guard_late(holders, t) == holders

\* the MutexGuard of try_lock is dropped when recv_packet returns
drop_guard(holders, t) == holders \ { t }

\* a try_lock that succeeds whoever holds the mutex
try_lock_unchecked(holders) == TRUE

\* Mutex::try_lock: Ok when no thread holds the mutex
try_lock(holders) == holders = { }

\* Session::recv_packet up to the result of recv_mutex.try_lock(): with the
\* lock the thread enters adaptor.recv(); without it the result is
\* MutexOccupied, on which wait_response goes to recver.recv() and loop_handle
\* goes round its loop
recv_packet(t) ==
    /\ pc[t] = "loop"
    /\ IF try_lock(recv_mutex[SessOf(t)])
       THEN /\ recv_mutex' = [recv_mutex EXCEPT ![SessOf(t)] = { t }]
            /\ pc' = [pc EXCEPT ![t] = "recv"]
       ELSE /\ recv_mutex' = recv_mutex
            /\ pc' = [pc EXCEPT ![t] = IF t \in Requesters THEN "wait" ELSE "loop"]
    /\ UNCHANGED << running, connected, id_counter, sender_table, wire, req_id,
                    pack, chan, calls, call, results, async_rets, sent, served,
                    invoked, delivered >>

\* Adaptor::recv returns Ok(pack); recv_packet returns it and the guard of the
\* if-let is dropped
recv_ok(t) ==
    /\ pc[t] = "recv"
    /\ ~Disconnected
    /\ wire[SessOf(t)] # << >>
    /\ pack' = [pack EXCEPT ![t] = Head(wire[SessOf(t)])]
    /\ wire' = [wire EXCEPT ![SessOf(t)] = Tail(@)]
    /\ recv_mutex' = [recv_mutex EXCEPT ![SessOf(t)] = drop_guard(@, t)]
    /\ pc' = [pc EXCEPT ![t] = "handle"]
    /\ UNCHANGED << running, connected, id_counter, sender_table, req_id, chan,
                    calls, call, results, async_rets, sent, served, invoked,
                    delivered >>

\* Adaptor::recv returns Err(NoData): both loops go round
recv_nodata(t) ==
    /\ pc[t] = "recv"
    /\ ~Disconnected
    /\ wire[SessOf(t)] = << >>
    /\ recv_mutex' = [recv_mutex EXCEPT ![SessOf(t)] = drop_guard(@, t)]
    /\ pc' = [pc EXCEPT ![t] = "loop"]
    /\ UNCHANGED << running, connected, id_counter, sender_table, wire, req_id,
                    pack, chan, calls, call, results, async_rets, sent, served,
                    invoked, delivered >>

\* where a thread goes on Err(Disconnected): loop_handle breaks and returns,
\* wait_response takes its catch-all arm and goes round
AfterDisconnected(t) == IF t \in Loopers THEN "done" ELSE "loop"

\* Adaptor::recv returns Err(Disconnected); the guard of the if-let is dropped
recv_disconnected(t) ==
    /\ pc[t] = "recv"
    /\ Disconnected
    /\ recv_mutex' = [recv_mutex EXCEPT ![SessOf(t)] = drop_guard(@, t)]
    /\ pc' = [pc EXCEPT ![t] = AfterDisconnected(t)]
    /\ UNCHANGED << running, connected, id_counter, sender_table, wire,
                    req_id, pack, chan, calls, call, results, async_rets,
                    sent, served, invoked, delivered >>

(* --------------------------- handle_packet ---------------------------- *)

\* where the caller of handle_packet goes on: wait_response polls its
\* receiver, loop_handle goes round
AfterPacket(t) == IF t \in Requesters THEN "poll" ELSE "loop"

Served(s, type, id, m, h) ==
    [sess |-> s, type |-> type, id |-> id, m |-> m, h |-> h]

\* handle_packet, REQUEST arm
handle_request(t) ==
    LET s == SessOf(t)
        p == pack[t]
        id == p[3].n
        method == parse_method(p[4])[1]
        bytes == SubSeq(p, 5, Len(p))
        h == Handle(s, method, bytes)
        w == RequestWrapper(id)
    IN  /\ pc[t] = "handle"
        /\ p[2].n = REQUEST /\ p[1].n = 4
        /\ Send(s, RetFrames(w, h) \o AfterHandle(id, h))
        /\ async_rets' = [async_rets EXCEPT ![s] = @ \cup into_async(w, h)]
        /\ served' = served \cup { Served(s, "request", id, method, h) }
        /\ pack' = [pack EXCEPT ![t] = << >>]
        /\ pc' = [pc EXCEPT ![t] = AfterPacket(t)]
        /\ UNCHANGED << running, connected, id_counter, sender_table,
                        recv_mutex, req_id, chan, calls, call, results,
                        invoked, delivered >>

\* the service of the client where the peer calls back: its handler for "cb"
\* decodes the argument and calls ss.request("add", argument) on the session
\* it is given, then returns Ok; every other method is left to the default
Nests(s, method) ==
    s = "cli" /\ running \cap PeerCallers # { } /\ method = MStr("cb")

\* handle_packet, NOTIFY arm
handle_notify(t) ==
    LET s == SessOf(t)
        p == pack[t]
        method == parse_method(p[3])[1]
        bytes == SubSeq(p, 4, Len(p))
        h == Handle(s, method, bytes)
        w == NotifyWrapper
    IN  /\ pc[t] = "handle"
        /\ p[2].n = NOTIFY /\ p[1].n = 3
        /\ ~Nests(s, method)
        /\ Send(s, RetFrames(w, h))
        /\ async_rets' = [async_rets EXCEPT ![s] = @ \cup into_async(w, h)]
        /\ served' = served \cup { Served(s, "notify", 0, method, h) }
        /\ pack' = [pack EXCEPT ![t] = << >>]
        /\ pc' = [pc EXCEPT ![t] = AfterPacket(t)]
        /\ UNCHANGED << running, connected, id_counter, sender_table,
                        recv_mutex, req_id, chan, calls, call, results,
                        invoked, delivered >>

\* handle_packet, NOTIFY arm, up to the handler's call of ss.request: the
\* thread goes on in the frame of that request, with the packet still borrowed
handle_nested(t) ==
    LET s == SessOf(t)
        p == pack[t]
        method == parse_method(p[3])[1]
        n == FrameOf(t)
    IN  /\ pc[t] = "handle" /\ t \in Callers
        /\ p[2].n = NOTIFY /\ p[1].n = 3
        /\ Nests(s, method)
        /\ pc[n] = "off"
        /\ pc' = [pc EXCEPT ![t] = "nested", ![n] = "idle"]
        /\ UNCHANGED << running, connected, id_counter, sender_table,
                        recv_mutex, wire, req_id, pack, chan, calls, call,
                        results, async_rets, sent, served, invoked,
                        delivered >>

\* the argument of the request the handler makes: the one it was called with
HandlerArg(n) == Decode(SubSeq(pack[Owner(n)], 4, Len(pack[Owner(n)]))).v

\* handle_packet, NOTIFY arm, from the return of the handler's request: the
\* handler returns Ok and handle_packet returns to its caller
handle_resume(t) ==
    LET s == SessOf(t)
        p == pack[t]
        method == parse_method(p[3])[1]
        n == FrameOf(t)
        h == Outcome("none", 0, << >>, "", TRUE, "")
    IN  /\ pc[t] = "nested"
        /\ pc[n] = "idle" /\ Len(results[n]) = calls[n] /\ calls[n] > 0
        /\ served' = served \cup { Served(s, "notify", 0, method, h) }
        /\ pack' = [pack EXCEPT ![t] = << >>]
        /\ pc' = [pc EXCEPT ![t] = AfterPacket(t), ![n] = "off"]
        /\ UNCHANGED << running, connected, id_counter, sender_table,
                        recv_mutex, wire, req_id, chan, calls, call, results,
                        async_rets, sent, invoked, delivered >>

\* the states in which the Receiver of a thread's channel exists
InWait == { "loop", "recv", "handle", "nested", "poll", "wait" }

\* a remove that empties the table
Remove_all(table, id) == << >>

\* a lookup that leaves the entry in the table (get in place of remove)
Remove_kept(table, id) == table

\* sender_table.remove(&req_id): the table it leaves
Remove(table, id) == [i \in (DOMAIN table) \ { id } |-> table[i]]

\* a lookup that takes whichever Sender is pending, whatever the id
Lookup_any(table, id) ==
    IF DOMAIN table # { }
    THEN << table[CHOOSE i \in DOMAIN table : TRUE] >>
    ELSE << >>

\* sender_table.remove(&req_id): the Sender it finds, Some(<< sender >>) or None
Lookup(table, id) == IF id \in DOMAIN table THEN << table[id] >> ELSE << >>

\* handle_packet, RESPONSE arm
handle_response(t) ==
    LET s == SessOf(t)
        p == pack[t]
        id == p[3].n
        found == Lookup(sender_table[s], id)
    IN  /\ pc[t] = "handle"
        /\ p[2].n = RESPONSE /\ p[1].n = 4
        /\ sender_table' = [sender_table EXCEPT ![s] = Remove(@, id)]
        /\ IF found # << >> /\ pc[found[1][1]] \in InWait
                            /\ calls[found[1][1]] = found[1][2]
           THEN /\ chan' = [chan EXCEPT ![found[1][1]] =
                                Append(@, [resp |-> ResponseOf(p), pkt |-> id])]
                /\ delivered' = [delivered EXCEPT ![found[1][1]] = @ + 1]
           ELSE UNCHANGED << chan, delivered >>
        /\ pack' = [pack EXCEPT ![t] = << >>]
        /\ pc' = [pc EXCEPT ![t] = AfterPacket(t)]
        /\ UNCHANGED << running, connected, id_counter, recv_mutex, wire,
                        req_id, calls, call, results, async_rets, sent, served,
                        invoked >>

\* Session::handle_packet
handle_packet(t) ==
    \/ handle_request(t)
    \/ handle_notify(t)
    \/ handle_response(t)

(* ---------------------- the end of wait_response ---------------------- *)

Returned(t, msg) ==
    [id |-> req_id[t], m |-> call[t].m, v |-> call[t].v,
     resp |-> msg.resp, pkt |-> msg.pkt]

\* request returns r: the Receiver is dropped with the call
Return(t) ==
    /\ results' = [results EXCEPT ![t] = Append(@, Returned(t, Head(chan[t])))]
    /\ chan' = [chan EXCEPT ![t] = << >>]
    /\ pc' = [pc EXCEPT ![t] = "idle"]

\* wait_response, Ok(pack) arm after handle_packet: recver.try_recv()
try_recv(t) ==
    /\ pc[t] = "poll"
    /\ IF chan[t] # << >>
       THEN Return(t)
       ELSE /\ pc' = [pc EXCEPT ![t] = "loop"]
            /\ UNCHANGED << results, chan >>
    /\ UNCHANGED << running, connected, id_counter, sender_table, recv_mutex,
                    wire, req_id, pack, calls, call, async_rets, sent, served,
                    invoked, delivered >>

\* wait_response, MutexOccupied arm: recver.recv() returns once a value is there
recv(t) ==
    /\ pc[t] = "wait"
    /\ chan[t] # << >>
    /\ Return(t)
    /\ UNCHANGED << running, connected, id_counter, sender_table, recv_mutex,
                    wire, req_id, pack, calls, call, async_rets, sent, served,
                    invoked, delivered >>

(* ------------------------------ AsyncRet ------------------------------ *)

\* AsyncRet::call_once with the value v, on a thread of the service's own
AsyncRet(t, a, v) ==
    /\ t \in Workers /\ a \in async_rets[SessOf(t)]
    /\ Send(SessOf(t), << response(a.req_id, v) >>)
    /\ async_rets' = [async_rets EXCEPT ![SessOf(t)] = @ \ { a }]
    /\ invoked' = invoked \cup { [id |-> a.req_id, v |-> v] }
    /\ UNCHANGED << running, connected, id_counter, sender_table, recv_mutex,
                    pc, req_id, pack, chan, calls, call, results, served,
                    delivered >>

(* ---------------------------- specification --------------------------- *)

Step(t) ==
    \/ \E m \in MethodsFor(running), v \in ValsFor(running, t) : request(t, m, v)
    \/ \E m \in Methods, v \in Vals : notify(t, m, v)
    \/ \E m \in MethodsFor(running), v \in ValsFor(running, t) :
           request_transfer(t, m, Encode(v))
    \/ \E m \in Methods, v \in Vals : notify_transfer(t, m, Encode(v))
    \/ request_send(t)
    \/ wait_response(t)
    \/ recv_packet(t)
    \/ recv_ok(t)
    \/ recv_nodata(t)
    \/ handle_packet(t)
    \/ try_recv(t)
    \/ recv(t)
    \/ \E a \in async_rets[SessOf(t)], v \in Vals : AsyncRet(t, a, v)

Next == \E t \in Threads : Step(t)

Spec == Init /\ [][Next]_vars

\* every thread that can take a step eventually takes one
FairSpec == Spec /\ \A t \in Threads : WF_vars(Step(t))

\* the same, for the runs with one caller thread
SoloInit == Init /\ Solo(running)

SoloSpec == SoloInit /\ [][Next]_vars

SoloFairSpec == SoloInit /\ [][Next]_vars /\ \A t \in Threads : WF_vars(Step(t))

\* a client thread calling request and a server thread notifying the client,
\* whose service calls back: the methods answered at once and through an
\* AsyncRet, a notification the service nests a request in and one it rejects
NestedInit == running = { "c1", "sN" } /\ Start(1)

NestedStep(t) ==
    \/ /\ t \in Callers
       /\ \E m \in { MStr("add"), MStr("slow") }, v \in Vals : request(t, m, v)
    \/ t \in Frames /\ request(t, MStr("add"), HandlerArg(t))
    \/ /\ t \in PeerCallers
       /\ \E m \in { MStr("cb"), MStr("nope") }, v \in Vals : notify(t, m, v)
    \/ request_send(t)
    \/ wait_response(t)
    \/ recv_packet(t)
    \/ recv_ok(t)
    \/ recv_nodata(t)
    \/ handle_packet(t)
    \/ handle_nested(t)
    \/ handle_resume(t)
    \/ try_recv(t)
    \/ \E a \in async_rets[SessOf(t)], v \in Vals : AsyncRet(t, a, v)

NestedNext == \E t \in AllThreads : NestedStep(t)

NestedSpec ==
    NestedInit /\ [][NestedNext]_vars
               /\ \A t \in AllThreads : WF_vars(NestedStep(t))

\* the sessions with a transport that either host may close at any time
CloseStep(t) == Step(t) \/ recv_disconnected(t)

CloseNext == close \/ \E t \in Threads : CloseStep(t)

CloseSpec ==
    SoloInit /\ [][CloseNext]_vars /\ \A t \in Threads : WF_vars(CloseStep(t))

\* sessions that have handed out every id but the last one before the
\* 32-bit counter wraps (2^32 - 2 calls made and returned), with one or two
\* threads calling on the client session
WrapInit == running \in { {"c1"}, {"c1", "c2"} } /\ Start(IdModulus - 1)

WrapSpec == WrapInit /\ [][Next]_vars

(* ------------------------- vocabulary of the claims ------------------- *)

\* a caller thread is inside request: from next_id to the return
InRequest(t) == t \in Callers /\ pc[t] \in { "send", "insert" } \cup InWait

\* the service of the peer replies to a request for method m, at once or
\* through an AsyncRet
Answered(m) ==
    LET h == ServerService(m, Encode(0)) IN h.use # "none" \/ ~h.ok

\* the request call the thread made last has returned
HasReturned(t) ==
    /\ pc[t] = "idle"
    /\ results[t] # << >>
    /\ results[t][Len(results[t])].id = req_id[t]

\* the Response frames bearing id that session s has handed to send
ResponsesSent(s, id) ==
    LET fs == { f \in DOMAIN sent[s] : f[2].n = RESPONSE /\ f[3].n = id }
    IN  BagCardinality([f \in fs |-> sent[s][f]])

\* the request calls that have returned
ResultsOf(t) == { results[t][i] : i \in 1..Len(results[t]) }
AllResults == UNION { ResultsOf(t) : t \in Callers }

(* -------------------------------- C1 ---------------------------------- *)

\* C1: when two threads call request on the client session, no thread of it
\* runs loop_handle and the peer answers every request, every request call
\* eventually returns.
C1_ConcurrentCallersReturn ==
    (running = { "c1", "c2" }) =>
        \A t \in Callers :
            (InRequest(t) /\ Answered(call[t].m)) ~> HasReturned(t)

(* -------------------------------- C2 ---------------------------------- *)

\* C2: with loop_handle running on one thread of the client session and the
\* peer answering every request, every request call of the other threads
\* eventually returns, and returns the reply to its own request.
C2_PumperAndCallersReturn ==
    ("cL" \in running) =>
        \A t \in Callers :
            (InRequest(t) /\ Answered(call[t].m)) ~>
                (HasReturned(t) /\ results[t][Len(results[t])].pkt = req_id[t])

(* -------------------------------- C3 ---------------------------------- *)

\* C3: at most one Response is put in the channel of a request call, and a
\* thread has no more returns than calls, also when the peer sends several
\* Responses bearing the same id: once one is delivered the pending entry is
\* gone.
C3_OneReplyPerRequest ==
    \A t \in Callers :
        /\ delivered[t] <= 1
        /\ Len(chan[t]) <= 1
        /\ Len(results[t]) <= calls[t]
        /\ InRequest(t) => Len(results[t]) < calls[t]
        /\ (pc[t] \in InWait /\ delivered[t] = 1) =>
               req_id[t] \notin DOMAIN sender_table[SessOf(t)]

\* the peer has sent two Responses for one request, the client has handled
\* both, and the call got one of them
C3_Witness ==
    \E t \in Callers :
        /\ HasReturned(t)
        /\ delivered[t] = 1
        /\ ResponsesSent("srv", req_id[t]) = 2
        /\ wire["cli"] = << >>
        /\ \A u \in Threads : SessOf(u) = "cli" => pc[u] # "handle"

(* -------------------------------- C4 ---------------------------------- *)

\* C4: a Response in the channel of a call, and the Response a call returns,
\* come from a Response packet whose id is the id of the call's own Request.
C4_ReplyMatchesRequest ==
    /\ \A t \in Callers : \A i \in 1..Len(chan[t]) :
            chan[t][i].pkt = req_id[t]
    /\ \A r \in AllResults :
            /\ r.pkt = r.id
            /\ r.resp.k = "Data" => r.resp.pack[3] = UInt(r.id)

\* both callers of a shared session hold the reply to their own request
C4_Witness ==
    /\ HasReturned("c1") /\ HasReturned("c2")
    /\ req_id["c1"] # req_id["c2"]
    /\ running = { "c1", "c2" }

(* -------------------------------- C5 ---------------------------------- *)

\* C5: two requests outstanding at the same time never carry the same id, and
\* every entry of the pending table belongs to the one outstanding request
\* bearing its id.
C5_IdsUniqueWhileOutstanding ==
    /\ \A t, u \in Callers :
            (t # u /\ InRequest(t) /\ InRequest(u)) => req_id[t] # req_id[u]
    /\ \A s \in Sess : \A i \in DOMAIN sender_table[s] :
            LET t == sender_table[s][i][1] IN
            /\ InRequest(t) /\ SessOf(t) = s
            /\ req_id[t] = i
            /\ calls[t] = sender_table[s][i][2]

\* two requests are outstanding and both have their entry in the table
C5_Witness ==
    /\ InRequest("c1") /\ InRequest("c2")
    /\ { req_id["c1"], req_id["c2"] } \subseteq DOMAIN sender_table["cli"]

(* -------------------------------- C6 ---------------------------------- *)

\* thread t is in handle_packet with a Notify and completes it in this step
HandlesNotify(t) ==
    /\ pc[t] = "handle" /\ pack[t][2].n = NOTIFY
    /\ pc'[t] # "handle"

\* C6: the step that handles a Notify hands nothing to the transport and
\* leaves no AsyncRet behind, whatever the handler did with its Ret and
\* whatever it returned.
C6_NotifySilence ==
    [][ \A t \in Threads :
            HandlesNotify(t) =>
                /\ wire' = wire /\ sent' = sent
                /\ async_rets' = async_rets ]_vars

\* a Notify has been handled by a handler that called its Ret with a value
\* and returned Err, and the session has sent nothing
C6_Witness ==
    /\ \E r \in served :
           r.type = "notify" /\ r.sess = "srv" /\ r.h.use = "call" /\ ~r.h.ok
    /\ sent["srv"] = EmptyBag

(* -------------------------------- C7 ---------------------------------- *)

\* C7: for every inbound Request a session sends at most one Response
\* bearing the id of that request.
C7_AtMostOneResponse ==
    \A r \in served :
        r.type = "request" => ResponsesSent(r.sess, r.id) <= 1

(* -------------------------------- C8 ---------------------------------- *)

\* the handler invocation that served the request a returned call made
ServedFor(r) ==
    { x \in served : x.type = "request" /\ x.sess = "srv" /\ x.id = r.id }

\* C8 as stated: whenever the handler returned Err(s), the call returns
\* Error(s).
C8_ErrorRoundTrip ==
    \A r \in AllResults : \A x \in ServedFor(r) :
        ~x.h.ok => r.resp = Error(x.h.err)

\* C8, amended: when the handler returns Err(s) without having used its Ret,
\* the session sends a Response with the id of the request and the string s
\* in the error field, and the call, when it returns, returns Error(s).
C8_ErrorRoundTripUnusedRet ==
    /\ \A x \in served :
           (x.type = "request" /\ ~x.h.ok /\ x.h.use = "none") =>
               /\ BagIn(response_error(x.id, x.h.err), sent[x.sess])
               /\ ResponsesSent(x.sess, x.id) = 1
    /\ \A r \in AllResults : \A x \in ServedFor(r) :
           (~x.h.ok /\ x.h.use = "none") => r.resp = Error(x.h.err)

\* a request for a method the service does not know has returned the error
C8_Witness ==
    \E r \in AllResults :
        /\ r.m = MStr("nope")
        /\ r.resp = Error(HandleErrorFrom("No this method"))

(* -------------------------------- C9 ---------------------------------- *)

\* the methods whose handler decodes the argument and replies with it
Echo(m) == m \in { MStr("add"), MInt(7) }

\* C9: a request for an echoing method, made by the only thread of a session,
\* eventually returns, and what it returns is Data whose payload decodes to
\* the argument sent.
C9_RoundTrip ==
    (running = { "c1" }) =>
        /\ [](\A r \in AllResults :
                Echo(r.m) =>
                    /\ r.resp.k = "Data"
                    /\ Decode(as_slice(r.resp)) = [ok |-> TRUE, v |-> r.v])
        /\ (InRequest("c1") /\ Echo(call["c1"].m)) ~> HasReturned("c1")

\* the only thread of the session has its argument back from the method 7
C9_Witness ==
    /\ running = { "c1" }
    /\ \E r \in AllResults :
           /\ r.m = MInt(7) /\ r.v = 2
           /\ r.resp.k = "Data" /\ Decode(as_slice(r.resp)).v = 2

(* -------------------------------- C10 --------------------------------- *)

\* C10: once the AsyncRet made for a request has been invoked, one Response
\* has been sent for the request; the call returns Data carrying the value
\* the AsyncRet was invoked with, and with one thread on the client session
\* it does return.
C10_AsyncReply ==
    /\ [](\A a \in invoked : ResponsesSent("srv", a.id) = 1)
    /\ [](\A r \in AllResults :
            r.m = MStr("slow") =>
                /\ r.resp.k = "Data"
                /\ \E a \in invoked :
                       a.id = r.id /\ Decode(as_slice(r.resp)).v = a.v)
    /\ (running = { "c1" }) =>
           ((InRequest("c1") /\ call["c1"].m = MStr("slow")) ~>
                HasReturned("c1"))

\* a request answered through an AsyncRet has returned the value
C10_Witness ==
    \E r \in AllResults :
        /\ r.m = MStr("slow") /\ r.resp.k = "Data"
        /\ ResponsesSent("srv", r.id) = 1

(* -------------------------------- C11 --------------------------------- *)

\* C11: once the transport is closed, every thread inside request eventually
\* leaves it, and its entry is no longer in the pending table.
C11_DrainOnDisconnect ==
    \A t \in Callers :
        (Disconnected /\ InRequest(t)) ~>
            (~InRequest(t) /\ req_id[t] \notin DOMAIN sender_table[SessOf(t)])

(* -------------------------------- C12 --------------------------------- *)

\* C12: from every state in which a thread is about to call, a step is
\* request_transfer(m, Encode(v)) by that thread exactly when it is
\* request(m, v) by it, so the two build the same packet and change the id
\* counter alike (the pending table is left to wait_response by both); a step
\* is notify_transfer(m, Encode(v)) exactly when it is notify(m, v), and such
\* a step hands the transport one frame, made of the Notify header and
\* Encode(v), and changes neither the id counter nor the pending table.
C12_TransferEquivalence ==
    [][ \A t \in Callers : pc[t] = "idle" =>
          \A m \in Methods, v \in Vals :
            /\ request_transfer(t, m, Encode(v)) <=> request(t, m, v)
            /\ request_transfer(t, m, Encode(v)) =>
                   /\ pack'[t] = prepare_request(req_id'[t], m) \o Encode(v)
                   /\ sender_table' = sender_table
            /\ notify_transfer(t, m, Encode(v)) <=> notify(t, m, v)
            /\ notify_transfer(t, m, Encode(v)) =>
                   /\ wire'[Peer(SessOf(t))] =
                          Append(wire[Peer(SessOf(t))],
                                 prepare_notify(m) \o Encode(v))
                   /\ id_counter' = id_counter
                   /\ sender_table' = sender_table ]_vars

\* the first Request of a session, made of its header and Encode(2), has been
\* handed to the transport and the id counter has moved on
C12_Witness ==
    /\ BagIn(prepare_request(1, MInt(7)) \o Encode(2), sent["cli"])
    /\ id_counter["cli"] = 2

(* -------------------------------- C13 --------------------------------- *)

\* the Request of the call thread t is making has been handed to send
RequestSent(t) == t \in Callers /\ pc[t] \in { "insert" } \cup InWait

\* C13: in every state in which the Request of a call has been sent and the
\* peer has not yet sent a reply to it, the id of the call is in the pending
\* table.
C13_InsertBeforeSend ==
    \A t \in Callers :
        (RequestSent(t) /\ ResponsesSent(Peer(SessOf(t)), req_id[t]) = 0) =>
            req_id[t] \in DOMAIN sender_table[SessOf(t)]

(* -------------------------------- C14 --------------------------------- *)

\* the threads of session s that are inside adaptor.recv()
InRecv(s) == { t \in Threads : SessOf(t) = s /\ pc[t] = "recv" }

\* C14: at most one thread of a session is inside Transport.recv, the threads
\* inside it are the holders of the recv lock, and a recv_packet step taken
\* while another thread is inside recv does not enter recv.
C14_OneReceiver ==
    /\ [](\A s \in Sess :
            /\ Cardinality(InRecv(s)) <= 1
            /\ recv_mutex[s] = InRecv(s))
    /\ [][ \A t \in Threads :
             (pc[t] = "loop" /\ InRecv(SessOf(t)) # { }) => pc'[t] # "recv" ]_vars

\* one caller is inside recv and the other has got MutexOccupied
C14_Witness ==
    /\ pc["c1"] = "recv" /\ pc["c2"] = "wait"
    /\ recv_mutex["cli"] = { "c1" }

(* -------------------------------- C15 --------------------------------- *)

\* a thread is inside loop_handle
InLoopHandle(t) == t \in Loopers /\ pc[t] \in { "loop", "recv", "handle" }

\* C15: loop_handle returns only from a recv of its own that reported
\* Disconnected, and once the transport is closed every running loop_handle
\* eventually returns.
C15_LoopHandleReturns ==
    /\ [][ \A t \in Loopers :
             (pc[t] # "done" /\ pc'[t] = "done") =>
                 (pc[t] = "recv" /\ Disconnected) ]_vars
    /\ \A t \in Loopers :
           (Disconnected /\ InLoopHandle(t)) ~> pc[t] = "done"

(* -------------------------------- C16 --------------------------------- *)

\* thread t is in handle_packet with a Response whose id is not in the
\* pending table, and completes it in this step
HandlesUnknownResponse(t) ==
    /\ pc[t] = "handle" /\ pack[t][2].n = RESPONSE
    /\ pack[t][3].n \notin DOMAIN sender_table[SessOf(t)]
    /\ pc'[t] # "handle"

\* C16: the step that handles a Response with an unknown id leaves the pending
\* table and every reply slot as they are, sends nothing and does not invoke
\* the service; the calls that have returned and the ids of the calls in
\* progress are untouched.
C16_UnknownResponseDiscarded ==
    [][ \A t \in Threads :
            HandlesUnknownResponse(t) =>
                /\ sender_table' = sender_table
                /\ chan' = chan /\ delivered' = delivered
                /\ wire' = wire /\ sent' = sent
                /\ served' = served /\ async_rets' = async_rets
                /\ results' = results /\ req_id' = req_id ]_vars

\* the second Response of a doubly answered request has been discarded by the
\* other caller, whose own request is still pending
C16_Witness ==
    /\ HasReturned("c1") /\ ResponsesSent("srv", req_id["c1"]) = 2
    /\ wire["cli"] = << >>
    /\ \A u \in Threads : SessOf(u) = "cli" => pc[u] # "handle"
    /\ InRequest("c2") /\ req_id["c2"] \in DOMAIN sender_table["cli"]

(* -------------------------------- C17 --------------------------------- *)

\* the handler invocations that returned Ok for a Request and left the Ret
\* unused
Unanswered ==
    { x \in served : x.type = "request" /\ x.h.ok /\ x.h.use = "none" }

\* C17: for a Request whose handler returned Ok without using its Ret the
\* session has sent no Response, and the call that made the request has not
\* returned.
C17_NoReplyNoReturn ==
    \A x \in Unanswered :
        /\ ResponsesSent(x.sess, x.id) = 0
        /\ \A r \in AllResults : r.id # x.id
        /\ \A t \in Callers : req_id[t] = x.id => InRequest(t)

\* the handler has returned Ok without a reply, nothing is in flight, and the
\* caller is still inside request
C17_Witness ==
    /\ Unanswered # { }
    /\ wire["cli"] = << >> /\ wire["srv"] = << >>
    /\ pc["sL"] = "loop"
    /\ InRequest("c1") /\ call["c1"].m = MStr("mute")

(* -------------------------------- C18 --------------------------------- *)

\* C18: no Request packet a session has handed to the transport carries id 0.
C18_NoZeroId ==
    \A s \in Sess : \A f \in DOMAIN sent[s] :
        f[2].n = REQUEST => f[3].n # 0

(* -------------------------------- C19 --------------------------------- *)

\* C19: once a Response is in the channel of a call, the call eventually
\* returns.
C19_DeliveredIsReturned ==
    \A t \in Callers :
        (InRequest(t) /\ delivered[t] = 1 /\ chan[t] # << >>) ~>
            (pc[t] = "idle" /\ delivered[t] = 1)

(* -------------------------------- C20 --------------------------------- *)

\* a request call is in progress in t, a thread or the frame of a nested call
InCall(t) == pc[t] \in { "send", "insert" } \cup InWait

\* the request call made last in t has returned the reply to its own Request
ReturnedOwn(t) ==
    /\ ~InCall(t)
    /\ results[t] # << >>
    /\ LET r == results[t][Len(results[t])]
       IN  r.id = req_id[t] /\ r.pkt = req_id[t] /\ r.m = call[t].m

\* C20: a thread that is inside handle_packet, also one whose handler is
\* inside a request of its own, does not hold the recv lock; and when the only
\* thread of the client session makes a request and its handler, invoked
\* while it pumps, makes a nested request, both calls eventually return, each
\* the reply to its own Request.
C20_NestedRequest ==
    /\ [](\A t \in AllThreads :
            pc[t] \in { "handle", "nested" } => t \notin recv_mutex[SessOf(t)])
    /\ [](\A t \in Callers \cup Frames : \A r \in ResultsOf(t) : r.pkt = r.id)
    /\ \A t \in { "c1", "c1n" } : InCall(t) ~> ReturnedOwn(t)

\* both calls have returned their own replies, and the reply to the outer
\* request was in its channel while the nested request was still waiting
C20_Witness ==
    /\ ReturnedOwn("c1") /\ ReturnedOwn("c1n")
    /\ pc["c1n"] = "off"
    /\ call["c1"].m = MStr("add")

====
